---- MODULE Spec2Model ----
(***************************************************************************)
(* Model of the LL2LO extraction pipeline:                                 *)
(*   - RateLimiter            (src/src/services/rateLimiter.ts)            *)
(*   - AIService              (src/unnamed/part_012, provider-agnostic)    *)
(*   - App.handleParsePDF ... (src/src/App.tsx)                            *)
(*                                                                         *)
(* JavaScript runs to completion between awaits, so every action below is  *)
(* one macrotask: the code from one suspension point (timer, network       *)
(* reply, user event) up to the next await of every continuation it wakes. *)
(***************************************************************************)
EXTENDS Integers, Sequences, FiniteSets, TLC

(***************************************************************************)
(* Bounds of the model                                                     *)
(***************************************************************************)
MaxEntries == 3        \* closures a bare client hands to the rate limiter
TickMs     == 1000     \* granularity of the clock
StartTime  == 5000     \* Date.now() when the page is loaded
HorizonRL  == 5000     \* how long the clock runs in SpecRL
HorizonAI  == 6000     \* how long the clock runs in SpecAI
HorizonApp == 2000     \* how long the clock runs in Spec
MaxCalls   == 2        \* extractCVData calls of a bare client in SpecAI
MaxRetryAfter == 1     \* largest retry-after header value, in seconds
MaxRuns    == 2        \* invocations of handleParsePDF
MaxDocs    == 2        \* documents found by one run
MaxLevel   == 2        \* largest concurrency level the user picks

Delays == {0, 1000, 2000}   \* values given to the RateLimiter constructor

\* const rateLimiter = new RateLimiter(1000)
AIMinDelayMs == 1000
\* const maxAttempts = 3
maxAttempts == 3
\* private static retryDelays: number[] = [2000, 4000, 8000]
retryDelays == <<2000, 4000, 8000>>

NoEntry == <<0, 0>>
ClientEntries == {<<0, k>> : k \in 1..MaxEntries}
RunEntries == (1..MaxRuns) \X (1..MaxDocs)
Entries == ClientEntries \cup RunEntries

VARIABLES
  now,      \* Date.now()
  rl,       \* the RateLimiter object and the position of its drain loop
  est,      \* per entry: state of the promise returned by enqueue
  elog,     \* SpecRL: entries in the order of their enqueue calls
  dlog,     \* SpecRL: dispatches, entry and time its closure was invoked
  apiKey,   \* AIService.apiKey
  cl,       \* the extractWithRetry chain of the dispatched entry
  res,      \* per entry: the ExtractionResult extractCVData returned
  chain,    \* the entry dispatched last: provider calls made for it and
            \* the message of its most recent failed attempt
  ui,       \* the React state of App
  cancelRef,\* cancelExtractionRef.current
  runs,     \* the invocations of handleParsePDF: position and locals
  textContent, \* PDFService: the text items pdf.js returned for a page
  pageTexts,\* PDFService: the page texts parsePDF returned for a file
  parsed,   \* PDFService: the parse mode applied and the documents made
  payload,  \* AIService: the value JSON.parse made of a provider reply
  extracted \* AIService: what performExtraction made of the payload

rlVars == <<rl, est, elog, dlog>>
aiVars == <<apiKey, cl, res, chain>>
appVars == <<ui, cancelRef, runs>>
fnVars == <<textContent, pageTexts, parsed, payload, extracted>>
vars == <<now, rl, est, elog, dlog, apiKey, cl, res, chain,
          ui, cancelRef, runs, textContent, pageTexts, parsed, payload,
          extracted>>

(***************************************************************************)
(* RateLimiter                                                             *)
(*   rl.pc = "idle"   no processQueue invocation is suspended              *)
(*   rl.pc = "sleep"  processQueue is suspended in  await this.sleep(..)   *)
(*   rl.pc = "await"  processQueue is suspended in  await request.fn()     *)
(***************************************************************************)
RateLimiter(minDelayMs) ==
  [queue |-> <<>>, processing |-> FALSE, lastRequestTime |-> 0,
   minDelayMs |-> minDelayMs, pc |-> "idle", wake |-> 0, cur |-> NoEntry]

\* mutant: the loop ends without giving the flag back
LoopExit_KeepsFlag(s) ==
  [s EXCEPT !.pc = "idle", !.cur = NoEntry, !.wake = 0]

\* this.processing = false  after the while loop
LoopExit(s) ==
  [s EXCEPT !.processing = FALSE, !.pc = "idle", !.cur = NoEntry, !.wake = 0]

\* mutant: takes the newest entry (pop) instead of the oldest (shift)
Shift_Pop(s, t) ==
  IF Len(s.queue) = 0
    THEN LoopExit(s)
    ELSE [s EXCEPT !.queue = SubSeq(@, 1, Len(@) - 1), !.lastRequestTime = t,
                   !.cur = s.queue[Len(s.queue)], !.pc = "await", !.wake = 0]

\* const request = this.queue.shift(); if (!request) break;
\* this.lastRequestTime = Date.now(); await request.fn()
Shift(s, t) ==
  IF Len(s.queue) = 0
    THEN LoopExit(s)
    ELSE [s EXCEPT !.queue = Tail(@), !.lastRequestTime = t,
                   !.cur = Head(s.queue), !.pc = "await", !.wake = 0]

\* sleep(ms): a timer that fires no earlier than ms after t
sleep(s, t, ms) == [s EXCEPT !.pc = "sleep", !.wake = t + ms, !.cur = NoEntry]

\* mutant: the comparison of the elapsed time is inverted
LoopHead_Inverted(s, t) ==
  IF Len(s.queue) = 0
    THEN LoopExit(s)
    ELSE LET timeSinceLastRequest == t - s.lastRequestTime
         IN  IF timeSinceLastRequest > s.minDelayMs
               THEN sleep(s, t, s.minDelayMs)
               ELSE Shift(s, t)

\* one pass through the head of the while loop, up to its first await
LoopHead(s, t) ==
  IF Len(s.queue) = 0
    THEN LoopExit(s)
    ELSE LET timeSinceLastRequest == t - s.lastRequestTime
         IN  IF timeSinceLastRequest < s.minDelayMs
               THEN sleep(s, t, s.minDelayMs - timeSinceLastRequest)
               ELSE Shift(s, t)

\* mutant: starts a loop even while one is running
processQueue_NoGuard(s, t) ==
  IF Len(s.queue) = 0
    THEN s
    ELSE LoopHead([s EXCEPT !.processing = TRUE], t)

\* if (this.processing || this.queue.length === 0) return;
\* this.processing = true; while (this.queue.length > 0) { ... }
processQueue(s, t) ==
  IF s.processing \/ Len(s.queue) = 0
    THEN s
    ELSE LoopHead([s EXCEPT !.processing = TRUE], t)

enqueue(s, e, t) == processQueue([s EXCEPT !.queue = Append(@, e)], t)

\* mutant: rejects the entries but forgets  this.queue = []
clear_KeepQueue(s) == s

clear(s) == [s EXCEPT !.queue = <<>>]

\* did the step from s to s2 invoke a closure?
Invoked(s, s2) == s2.pc = "await" /\ (s.pc # "await" \/ s.cur # s2.cur)

InQueue(s, e) == \E i \in 1..Len(s.queue) : s.queue[i] = e

\* bookkeeping of a step that took the limiter from s to s2 at time t
LogDispatch(s, s2, t) ==
  IF Invoked(s, s2) THEN Append(dlog, [e |-> s2.cur, t |-> t]) ELSE dlog

MarkRunning(f, s, s2) ==
  IF Invoked(s, s2) THEN [f EXCEPT ![s2.cur] = "running"] ELSE f

(***************************************************************************)
(* AIService (provider-agnostic version)                                   *)
(***************************************************************************)
NoKey == "null"
Keys == {"sk-1"}

\* error.retryAfter is undefined
NoRA == -1
NoErr == [message |-> "", retryAfter |-> NoRA]

\* response.headers.get('retry-after'): absent, or decimal digits
NoHeader == <<>>
Digits(n) == IF n < 10 THEN <<n>> ELSE <<n \div 10, n % 10>>
Headers == {NoHeader} \cup {Digits(n) : n \in 0..MaxRetryAfter}

\* parseInt(retryAfter, 10) of a string of decimal digits
parseInt(h) == IF Len(h) = 1 THEN h[1] ELSE 10 * h[1] + h[2]

\* the error callAnthropic throws on a 429 response
RateLimitError(h) ==
  [message |-> "Anthropic API request failed: 429",
   retryAfter |-> IF h # NoHeader THEN parseInt(h) ELSE NoRA]

\* what performExtraction can throw: fetch rejects, non-2xx response,
\* JSON.parse fails, CVDataSchema.safeParse fails
Failures ==
  [message : {"Failed to fetch",
              "Anthropic API request failed: 500",
              "Failed to parse JSON response from AI",
              "AI returned invalid data structure"},
   retryAfter : {NoRA}]
  \cup {RateLimitError(h) : h \in Headers}

\* cv.text of the d-th document
Text(d) == <<"cv", d>>
NoText == <<>>

\* ExtractionResult; data is the CandidateData, of which rawText is kept
NoError == [pre |-> "", n |-> 0, msg |-> ""]
NoRes ==
  [st |-> "none", success |-> FALSE, data |-> NoText, error |-> NoError,
   tokens |-> 0]
Success(cvText, tokens) ==
  [st |-> "done", success |-> TRUE, data |-> cvText, error |-> NoError,
   tokens |-> tokens]
Failure(err) ==
  [st |-> "done", success |-> FALSE, data |-> NoText, error |-> err,
   tokens |-> 0]

\* 'API key not set. Please enter your API key.'
KeyNotSet == [pre |-> "API key not set", n |-> 0, msg |-> ""]

\* usage.totalTokens reported with a successful response
TokenCounts == {7}

\* if (error.retryAfter): undefined and 0 are falsy
Truthy(n) == n # NoRA /\ n # 0

\* let delay = this.retryDelays[attempt - 1];
\* if (error.retryAfter) delay = error.retryAfter * 1000
BackoffDelay(attempt, error) ==
  IF Truthy(error.retryAfter) THEN error.retryAfter * 1000
                              ELSE retryDelays[attempt]

\* mutant: retries also after the last attempt
ShouldRetry_OneMore(attempt) == attempt <= maxAttempts

\* if (attempt < maxAttempts)
ShouldRetry(attempt) == attempt < maxAttempts

\* mutant: rethrows the last error instead of returning a failure result
TerminalFailure_Throws(error) == [throws |-> TRUE, result |-> NoRes]

\* return {success: false,
\*         error: `Failed after ${maxAttempts} attempts: ${error.message}`}
TerminalFailure(error) ==
  [throws |-> FALSE,
   result |-> Failure([pre |-> "Failed after", n |-> maxAttempts,
                       msg |-> error.message])]

\* the closure  async () => this.extractWithRetry(cvText)
\*   cl.pc = "call"     suspended in  await this.performExtraction(cvText)
\*   cl.pc = "backoff"  suspended in  await this.sleep(delay)
IdleCl  == [pc |-> "none", attempt |-> 0, wake |-> 0, delay |-> 0, err |-> NoErr]
FreshCl == [pc |-> "call", attempt |-> 1, wake |-> 0, delay |-> 0, err |-> NoErr]

\* what the chain of entry e has done so far: provider calls, failed
\* attempts, backoff sleeps started
NoChain == [e |-> NoEntry, calls |-> 0, lastFail |-> "", fails |-> 0,
            backoffs |-> 0]
NewChain(e) == [e |-> e, calls |-> 1, lastFail |-> "", fails |-> 0,
                backoffs |-> 0]

\* mutant: the recursive call passes the attempt number on unchanged
NextAttempt_Same(attempt) == attempt

\* return this.extractWithRetry(cvText, attempt + 1)
NextAttempt(attempt) == attempt + 1

\* mutant: enqueues whether or not a key is configured
HasKey_Always(key) == TRUE

\* if (!this.apiKey)
HasKey(key) == key # NoKey

\* AIService.extractCVData(cvText) for entry e at time t, on a record W of
\* the objects the running macrotask works on
extractCVData(W, e, t) ==
  IF ~HasKey(W.key)
    THEN [W EXCEPT !.res[e] = Failure(KeyNotSet)]
    ELSE [W EXCEPT !.rl = enqueue(W.rl, e, t),
                   !.est[e] = "pending"]

(***************************************************************************)
(* App: handleParsePDF                                                     *)
(*   R.pc = "parsing"   suspended in the file loop (lines 162-174)         *)
(*   R.pc = "batch"     suspended in  await Promise.all(batchPromises)     *)
(*   R.pc = "returned"  the invocation has returned                        *)
(* R.sub, R.cancelled and R.end record what the invocation did: calls of   *)
(* extractCVData per document, a stop or reset while it ran, and its last  *)
(* setProcessingStatus. R.req is the first handler ("stop" or "reset")     *)
(* that set the cancel flag while the invocation awaited a batch. R.lvl is  *)
(* the concurrency level the selector showed when the invocation last      *)
(* submitted a batch (0 before the first batch and after the return).      *)
(***************************************************************************)
Levels == 1..MaxLevel

NoRun ==
  [pc |-> "none", n |-> 0, conc |-> 1, i |-> 0,
   candidates |-> <<>>, errors |-> <<>>,
   completedCount |-> 0, cumulativeTokens |-> 0,
   sub |-> [d \in 1..MaxDocs |-> 0], cancelled |-> FALSE, end |-> "",
   req |-> "", lvl |-> 0]

Min(a, b) == IF a < b THEN a ELSE b

\* allCVs.slice(i, i + concurrencyLevel), as 1-based document numbers
Batch(R) == (R.i + 1)..Min(R.i + R.conc, R.n)

\* mutant: the index within the batch instead of the global one
GlobalIndex_Local(i, batchIndex) == batchIndex

\* const globalIndex = i + batchIndex
GlobalIndex(i, batchIndex) == i + batchIndex

\* for (const {index, result, cv} of batchResults) { ... }  from batchIndex k
RECURSIVE Collect(_, _, _, _)
Collect(R, r, k, rs) ==
  IF R.i + k + 1 > Min(R.i + R.conc, R.n)
    THEN R
    ELSE LET d == R.i + k + 1
             result == rs[<<r, d>>]
             R1 == IF result.success /\ result.data # NoText
                     THEN [R EXCEPT
                             !.candidates = Append(@, [rawText |-> result.data]),
                             !.cumulativeTokens = @ + result.tokens]
                     ELSE [R EXCEPT
                             !.errors = Append(@,
                                [candidateIndex |-> GlobalIndex(R.i, k),
                                 error |-> result.error,
                                 rawText |-> Text(d)])]
         IN  Collect([R1 EXCEPT !.completedCount = @ + 1], r, k + 1, rs)

\* lines 211-234, then the loop's i += concurrencyLevel
AfterBatch(W, r) ==
  LET R1 == Collect(W.R, r, 0, W.res)
  IN  [W EXCEPT !.R = [R1 EXCEPT !.i = @ + R1.conc],
                !.ui.progressCurrent = R1.completedCount,
                !.ui.extractedCandidates = R1.candidates,
                !.ui.failedExtractions = R1.errors,
                !.ui.totalTokens = R1.cumulativeTokens]

\* lines 237-241 (totalCost is written wherever totalTokens is)
Finish(W) ==
  [W EXCEPT !.ui.totalTokens = W.R.cumulativeTokens,
            !.ui.extractedCandidates = W.R.candidates,
            !.ui.failedExtractions = W.R.errors,
            !.ui.processingStatus = "done",
            !.R.pc = "returned",
            !.R.end = "done",
            !.R.lvl = 0]

\* lines 243-247
Catch(W) ==
  [W EXCEPT !.ui.processingStatus = "error",
            !.R.pc = "returned",
            !.R.end = "error",
            !.R.lvl = 0]

\* batch.map(async (cv, batchIndex) => ... extractCVData(cv.text) ...)
RECURSIVE SubmitBatch(_, _, _, _)
SubmitBatch(W, r, k, t) ==
  IF W.R.i + k + 1 > Min(W.R.i + W.R.conc, W.R.n)
    THEN W
    ELSE LET d == W.R.i + k + 1
             W1 == extractCVData(W, <<r, d>>, t)
         IN  SubmitBatch([W1 EXCEPT !.R.sub[d] = @ + 1,
                                    !.R.lvl = W.ui.concurrencyLevel],
                         r, k + 1, t)

\* mutant: goes on as soon as one call of the batch has returned
BatchSettled_Any(W, r) == \E d \in Batch(W.R) : W.res[<<r, d>>] # NoRes

\* Promise.all(batchPromises) is resolved
BatchSettled(W, r) == \A d \in Batch(W.R) : W.res[<<r, d>>] # NoRes

\* the for loop of lines 189-235 from its head, up to the next await that
\* does not resume in this macrotask, or to the return
RECURSIVE RunLoop(_, _, _)
RunLoop(W, r, t) ==
  IF W.R.i >= W.R.n
    THEN Finish(W)
    ELSE IF W.cancel
      THEN Finish([W EXCEPT !.ui.processingStatus = "idle"])
      ELSE LET W1 == SubmitBatch(W, r, 0, t)
           IN  IF BatchSettled(W1, r)
                 THEN RunLoop(AfterBatch(W1, r), r, t)
                 ELSE [W1 EXCEPT !.R.pc = "batch"]

\* the continuations woken when the promise of entry <<r, d>> settles
React(W, r, d, t) ==
  IF W.R.pc # "batch" \/ d \notin Batch(W.R)
    THEN W
    ELSE IF W.est[<<r, d>>] = "rejected"
      THEN Catch(W)
      ELSE IF BatchSettled(W, r)
        THEN RunLoop(AfterBatch(W, r), r, t)
        ELSE W

(***************************************************************************)
(* Initial values                                                          *)
(***************************************************************************)
AIInit ==
  /\ cl = IdleCl
  /\ res = [e \in Entries |-> NoRes]
  /\ chain = NoChain

\* no file has been parsed and no provider reply processed
NoParse == [mode |-> "none", cvs |-> <<>>]
NoPayload == [name |-> "none"]
NoExtraction == [st |-> "none"]

FnInit ==
  /\ textContent = <<>>
  /\ pageTexts = <<>>
  /\ parsed = NoParse
  /\ payload = NoPayload
  /\ extracted = NoExtraction

AppInit ==
  /\ ui = [uploadedFiles |-> 0, apiKey |-> NoKey, processingStatus |-> "idle",
           extractedCandidates |-> <<>>, failedExtractions |-> <<>>,
           progressCurrent |-> 0, progressTotal |-> 0, totalTokens |-> 0,
           concurrencyLevel |-> 1]
  /\ cancelRef = FALSE
  /\ runs = [r \in 1..MaxRuns |-> NoRun]

\* the objects a macrotask works on, for the invocation r of handleParsePDF
World(r) ==
  [rl |-> rl, est |-> est, res |-> res, key |-> apiKey,
   cancel |-> cancelRef, ui |-> ui,
   R |-> IF r = 0 THEN NoRun ELSE runs[r]]

\* a step that leaves the objects as in W: a closure the limiter invoked
\* runs up to the fetch of its first attempt; c is the closure state and
\* ch the record of the chain otherwise
Apply(W, r, c, ch) ==
  /\ rl' = W.rl
  /\ est' = MarkRunning(W.est, rl, W.rl)
  /\ cl' = IF Invoked(rl, W.rl) THEN FreshCl ELSE c
  /\ chain' = IF Invoked(rl, W.rl) THEN NewChain(W.rl.cur) ELSE ch
  /\ res' = W.res
  /\ ui' = W.ui
  /\ UNCHANGED <<elog, dlog>>
  /\ runs' = IF r = 0 THEN runs ELSE [runs EXCEPT ![r] = W.R]

(***************************************************************************)
(* The clock                                                               *)
(***************************************************************************)
Tick(maxT) ==
  /\ now + TickMs <= maxT
  /\ now' = now + TickMs

(***************************************************************************)
(* SpecRL: the RateLimiter driven by an arbitrary client whose closures    *)
(* take any time and either resolve or throw.                              *)
(***************************************************************************)
ClientEnqueue(e) ==
  /\ est[e] = "none"
  /\ LET s2 == enqueue(rl, e, now)
     IN  /\ rl' = s2
         /\ est' = MarkRunning([est EXCEPT ![e] = "pending"], rl, s2)
         /\ dlog' = LogDispatch(rl, s2, now)
  /\ elog' = Append(elog, e)
  /\ UNCHANGED <<now, fnVars, aiVars, appVars>>

ClientClear ==
  /\ rl' = clear(rl)
  /\ est' = [e \in DOMAIN est |->
               IF InQueue(rl, e) THEN "cancelled" ELSE est[e]]
  /\ UNCHANGED <<now, fnVars, elog, dlog, aiVars, appVars>>

\* the timer of  await this.sleep(...)  fires
SleepDone ==
  /\ rl.pc = "sleep"
  /\ now >= rl.wake
  /\ LET s2 == Shift(rl, now)
     IN  /\ rl' = s2
         /\ est' = MarkRunning(est, rl, s2)
         /\ dlog' = LogDispatch(rl, s2, now)
  /\ UNCHANGED <<now, fnVars, elog, aiVars, appVars>>

\* the promise of request.fn() settles: request.resolve / request.reject,
\* then the loop goes round
FnSettles(ok) ==
  /\ rl.pc = "await"
  /\ LET s2 == LoopHead(rl, now)
         f  == [est EXCEPT ![rl.cur] = IF ok THEN "resolved" ELSE "rejected"]
     IN  /\ rl' = s2
         /\ est' = MarkRunning(f, rl, s2)
         /\ dlog' = LogDispatch(rl, s2, now)
  /\ UNCHANGED <<now, fnVars, elog, aiVars, appVars>>

TickRL == Tick(StartTime + HorizonRL) /\ UNCHANGED <<rlVars, aiVars, appVars, fnVars>>

InitRL ==
  /\ now = StartTime
  /\ rl \in {RateLimiter(d) : d \in Delays}
  /\ est = [e \in Entries |-> "none"]
  /\ elog = <<>>
  /\ dlog = <<>>
  /\ apiKey = NoKey
  /\ AIInit
  /\ AppInit
  /\ FnInit

NextRL ==
  \/ \E e \in ClientEntries : ClientEnqueue(e)
  \/ ClientClear
  \/ SleepDone
  \/ \E ok \in BOOLEAN : FnSettles(ok)
  \/ TickRL

SpecRL == InitRL /\ [][NextRL]_vars

(***************************************************************************)
(* Claims about the RateLimiter (checked under SpecRL)                     *)
(***************************************************************************)
Pos(e) == CHOOSE i \in 1..Len(elog) : elog[i] = e
WasInvoked(e) == \E i \in 1..Len(dlog) : dlog[i].e = e
Started(e) == est[e] \in {"running", "resolved", "rejected"}

\* C1: the invocation times of any two consecutively dispatched closures
\* differ by at least minDelayMs, whatever the enqueue pattern and however
\* long a closure runs.
C1_MinSpacing ==
  \A i \in 1..(Len(dlog) - 1) : dlog[i + 1].t - dlog[i].t >= rl.minDelayMs

\* a burst of three entries enqueued in one instant, dispatched exactly
\* minDelayMs > 0 apart
C1_Witness ==
  /\ Len(dlog) >= 3
  /\ rl.minDelayMs > 0
  /\ dlog[2].t - dlog[1].t = rl.minDelayMs
  /\ dlog[1].t = StartTime

\* C2: closures are invoked in exactly the order of their enqueue calls:
\* the sequence of dispatched entries is the sequence of enqueued entries
\* with the not (yet) dispatched ones left out.
C2_Fifo ==
  [i \in 1..Len(dlog) |-> dlog[i].e] = SelectSeq(elog, Started)

\* three dispatches, enqueued in another order than their numbering, the
\* last one enqueued after the first was dispatched
C2_Witness ==
  /\ Len(dlog) = 3
  /\ elog[1] = <<0, 3>>
  /\ dlog[3].t > dlog[1].t

\* C3: clear() rejects every entry still in the queue with the cancellation
\* error and leaves the queue empty; a cancelled entry's closure is never
\* invoked; the entry whose closure is running is not touched by clear().
C3_Inv ==
  /\ \A e \in Entries : est[e] = "cancelled" => ~WasInvoked(e) /\ ~InQueue(rl, e)
  /\ \A e \in Entries : est[e] = "pending" <=> InQueue(rl, e)

C3_ClearStep ==
  (rl.queue # <<>> /\ rl'.queue = <<>> /\ dlog' = dlog) =>
     /\ \A e \in Entries : InQueue(rl, e) => est'[e] = "cancelled"
     /\ \A e \in Entries : ~InQueue(rl, e) => est'[e] = est[e]
     /\ rl'.cur = rl.cur /\ rl'.pc = rl.pc

C3_ClearRejectsPending == []C3_Inv /\ [][C3_ClearStep]_vars

\* an entry was cancelled while the loop slept or awaited, and an entry
\* enqueued after it has been dispatched since
C3_Witness ==
  \E e1, e2 \in Entries :
     /\ est[e1] = "cancelled"
     /\ Started(e2)
     /\ Pos(e2) > Pos(e1)
     /\ \E e3 \in Entries : est[e3] = "resolved" /\ Pos(e3) < Pos(e1)

(***************************************************************************)
(* AIService: the steps of the queued closures                             *)
(***************************************************************************)
\* the promise of the running entry e settles with out: request.resolve or
\* request.reject, the drain loop goes round, then the caller's
\* continuations run
Settle(e, out, ch) ==
  LET W0 == [World(e[1]) EXCEPT
               !.rl = LoopHead(rl, now),
               !.est[e] = IF out.throws THEN "rejected" ELSE "resolved",
               !.res[e] = out.result]
      W1 == IF e[1] = 0 THEN W0 ELSE React(W0, e[1], e[2], now)
  IN  Apply(W1, e[1], IdleCl, ch)

\* performExtraction returns: extractWithRetry returns the result
ExtractionSucceeds(tokens) ==
  /\ cl.pc = "call"
  /\ Settle(rl.cur, [throws |-> FALSE,
                     result |-> Success(Text(rl.cur[2]), tokens)], chain)
  /\ UNCHANGED <<now, fnVars, apiKey, cancelRef>>

\* performExtraction throws: the catch branch of extractWithRetry
ExtractionFails(error) ==
  /\ cl.pc = "call"
  /\ LET ch == [chain EXCEPT !.lastFail = error.message, !.fails = @ + 1]
     IN  IF ShouldRetry(cl.attempt)
           THEN LET delay == BackoffDelay(cl.attempt, error)
                IN  /\ cl' = [cl EXCEPT !.pc = "backoff", !.delay = delay,
                                        !.wake = now + delay, !.err = error]
                    /\ chain' = [ch EXCEPT !.backoffs = @ + 1]
                    /\ UNCHANGED <<rlVars, res, ui, runs>>
           ELSE Settle(rl.cur, TerminalFailure(error), ch)
  /\ UNCHANGED <<now, fnVars, apiKey, cancelRef>>

\* the timer of  await this.sleep(delay)  fires:
\* return this.extractWithRetry(cvText, attempt + 1)
BackoffDone ==
  /\ cl.pc = "backoff"
  /\ now >= cl.wake
  /\ cl' = [FreshCl EXCEPT !.attempt = NextAttempt(cl.attempt)]
  /\ chain' = [chain EXCEPT !.calls = @ + 1]
  /\ UNCHANGED <<now, fnVars, rlVars, apiKey, res, appVars>>

\* the timer of the drain loop's sleep fires
AISleepDone ==
  /\ rl.pc = "sleep"
  /\ now >= rl.wake
  /\ Apply([World(0) EXCEPT !.rl = Shift(rl, now)], 0, cl, chain)
  /\ UNCHANGED <<now, fnVars, apiKey, cancelRef>>

(***************************************************************************)
(* SpecAI: AIService driven by an arbitrary client                         *)
(***************************************************************************)
ClientExtract(e) ==
  /\ e \in ClientEntries /\ e[2] <= MaxCalls
  /\ est[e] = "none" /\ res[e] = NoRes
  /\ Apply(extractCVData(World(0), e, now), 0, cl, chain)
  /\ UNCHANGED <<now, fnVars, apiKey, cancelRef>>

\* AIService.setApiKey(key)
SetApiKey(key) ==
  /\ apiKey # key
  /\ apiKey' = key
  /\ UNCHANGED <<now, fnVars, rlVars, cl, res, chain, appVars>>

TickAI == Tick(StartTime + HorizonAI) /\ UNCHANGED <<rlVars, aiVars, appVars, fnVars>>

InitAI ==
  /\ now = StartTime
  /\ rl = RateLimiter(AIMinDelayMs)
  /\ est = [e \in Entries |-> "none"]
  /\ elog = <<>>
  /\ dlog = <<>>
  /\ apiKey = NoKey
  /\ AIInit
  /\ AppInit
  /\ FnInit

NextAI ==
  \/ \E e \in ClientEntries : ClientExtract(e)
  \/ \E k \in Keys \cup {NoKey} : SetApiKey(k)
  \/ \E n \in TokenCounts : ExtractionSucceeds(n)
  \/ \E f \in Failures : ExtractionFails(f)
  \/ BackoffDone
  \/ AISleepDone
  \/ TickAI

SpecAI == InitAI /\ [][NextAI]_vars

(***************************************************************************)
(* Claims about AIService (checked under SpecAI)                           *)
(***************************************************************************)
\* C4: when every attempt for a document fails, exactly 3 provider calls
\* are made, the chain ends in a failure result (not in a rejection), and
\* its message carries the message of the last failed attempt.
C4_ThreeAttempts ==
  /\ \A e \in Entries :
        (res[e].st = "done" /\ ~res[e].success /\ res[e].error # KeyNotSet) =>
           /\ res[e].error.pre = "Failed after" /\ res[e].error.n = 3
           /\ est[e] = "resolved"
           /\ chain.e = e => /\ chain.calls = 3
                              /\ res[e].error.msg = chain.lastFail
  /\ chain.calls <= 3
  /\ \A e \in Entries : est[e] # "rejected"

\* a chain has ended after three failures, the last of another kind than
\* a rate-limit error
C4_Witness ==
  \E e \in Entries :
     /\ res[e].st = "done" /\ ~res[e].success
     /\ chain.e = e /\ chain.calls = 3
     /\ res[e].error.msg = "AI returned invalid data structure"

\* C5: the delay before attempt k+1 is R seconds when the failure of
\* attempt k carries a retry-after value R, and the k-th ladder entry
\* when it carries none.
C5_BackoffDelay ==
  cl.pc = "backoff" =>
     cl.delay = IF cl.err.retryAfter # NoRA
                  THEN cl.err.retryAfter * 1000
                  ELSE retryDelays[cl.attempt]

\* C6: extractCVData called while no API key is configured returns the
\* failure at once: nothing is enqueued, the limiter is left as it was,
\* no provider call is made and no retry chain is started.
C6_NoKeyStep ==
  \A e \in ClientEntries :
     (/\ est[e] = "none" /\ res[e] = NoRes
      /\ apiKey = NoKey
      /\ (est'[e] # "none" \/ res'[e] # NoRes)) =>
        /\ res'[e] = Failure(KeyNotSet)
        /\ rl' = rl /\ est' = est /\ cl' = cl /\ chain' = chain

C6_NoKeyImmediate == [][C6_NoKeyStep]_vars

\* a call was refused for the missing key while the limiter was running
\* the closure of an earlier call
C6_Witness ==
  \E e1, e2 \in ClientEntries :
     /\ res[e2] = Failure(KeyNotSet) /\ chain.e = e1 /\ est[e2] = "none"
     /\ est[e1] = "running"
     /\ apiKey = NoKey

(***************************************************************************)
(* Spec: the App, its handlers driven by the user, on top of AIService     *)
(***************************************************************************)
Active(r) == runs[r].pc \in {"parsing", "batch"}

\* a stop or reset reaches the invocations that have not returned
MarkCancelled(by) ==
  [r \in 1..MaxRuns |->
     IF Active(r)
       THEN [runs[r] EXCEPT
               !.cancelled = TRUE,
               !.req = IF runs[r].pc = "batch" /\ @ = "" THEN by ELSE @]
       ELSE runs[r]]

\* handleSaveApiKey(key)
SaveApiKey(key) ==
  /\ ui.apiKey # key
  /\ ui' = [ui EXCEPT !.apiKey = key]
  /\ apiKey' = key
  /\ UNCHANGED <<now, fnVars, rlVars, cl, res, chain, cancelRef, runs>>

\* handleRemoveApiKey()
RemoveApiKey ==
  /\ ui.apiKey # NoKey
  /\ ui' = [ui EXCEPT !.apiKey = NoKey]
  /\ apiKey' = NoKey
  /\ UNCHANGED <<now, fnVars, rlVars, cl, res, chain, cancelRef, runs>>

\* mutant: the new level also reaches the invocations that are running
ConcurrencyChange_Live(level) ==
  /\ ui.concurrencyLevel # level
  /\ ui' = [ui EXCEPT !.concurrencyLevel = level]
  /\ runs' = [r \in 1..MaxRuns |->
                IF Active(r) THEN [runs[r] EXCEPT !.conc = level]
                             ELSE runs[r]]
  /\ UNCHANGED <<now, fnVars, rlVars, aiVars, cancelRef>>

\* handleConcurrencyChange(level)
ConcurrencyChange(level) ==
  /\ ui.concurrencyLevel # level
  /\ ui' = [ui EXCEPT !.concurrencyLevel = level]
  /\ UNCHANGED <<now, fnVars, rlVars, aiVars, cancelRef, runs>>

\* handleFileSelect(files); the FileUploader is disabled while the status
\* is 'parsing' or 'extracting'
FileSelect ==
  /\ ui.processingStatus \in {"idle", "done", "error"}
  /\ ui' = [ui EXCEPT !.uploadedFiles = 1,
                      !.extractedCandidates = <<>>,
                      !.failedExtractions = <<>>,
                      !.processingStatus = "idle"]
  /\ UNCHANGED <<now, fnVars, rlVars, aiVars, cancelRef, runs>>

\* handleReset()
Reset ==
  /\ cancelRef' = TRUE
  /\ ui' = [ui EXCEPT !.uploadedFiles = 0,
                      !.extractedCandidates = <<>>,
                      !.failedExtractions = <<>>,
                      !.processingStatus = "idle",
                      !.progressCurrent = 0,
                      !.progressTotal = 0,
                      !.totalTokens = 0]
  /\ runs' = MarkCancelled("reset")
  /\ UNCHANGED <<now, fnVars, rlVars, aiVars>>

\* handleStopExtraction(); the button is shown while status is 'extracting'
StopExtraction ==
  /\ ui.processingStatus = "extracting"
  /\ cancelRef' = TRUE
  /\ ui' = [ui EXCEPT !.processingStatus = "idle"]
  /\ runs' = MarkCancelled("stop")
  /\ UNCHANGED <<now, fnVars, rlVars, aiVars>>

\* const canProcess = uploadedFiles.length > 0 && apiKey &&
\*                    processingStatus === 'idle'
canProcess ==
  ui.uploadedFiles > 0 /\ ui.apiKey # NoKey /\ ui.processingStatus = "idle"

\* the locals and promises of an invocation that has returned are kept
\* until the next invocation starts
Gone(q) == runs[q].pc = "returned"
Settled(e) == est[e] \in {"resolved", "rejected"}

\* handleParsePDF() up to its first await (lines 141-165)
StartRun(r) ==
  /\ canProcess
  /\ runs[r].pc = "none"
  /\ \A q \in 1..(r - 1) : runs[q].pc # "none"
  /\ cancelRef' = FALSE
  /\ ui' = [ui EXCEPT !.processingStatus = "parsing",
                      !.progressCurrent = 0,
                      !.progressTotal = 0]
  /\ runs' = [q \in 1..MaxRuns |->
               IF q = r
                 THEN [NoRun EXCEPT !.pc = "parsing",
                                    !.conc = ui.concurrencyLevel]
                 ELSE IF Gone(q) THEN [NoRun EXCEPT !.pc = "returned"]
                                 ELSE runs[q]]
  /\ est' = [e \in Entries |->
               IF e[1] > 0 /\ Gone(e[1]) /\ Settled(e) THEN "none" ELSE est[e]]
  /\ res' = [e \in Entries |->
               IF e[1] > 0 /\ Gone(e[1]) /\ Settled(e) THEN NoRes ELSE res[e]]
  /\ UNCHANGED <<now, fnVars, rl, elog, dlog, apiKey, cl, chain>>

\* the files are read and split into n documents (lines 162-179); the
\* loop over the batches starts
ParseDone(r, n) ==
  /\ runs[r].pc = "parsing"
  /\ LET W0 == [World(r) EXCEPT !.R.n = n,
                                !.ui.progressTotal = n,
                                !.ui.processingStatus = "extracting",
                                !.ui.progressCurrent = 0]
     IN  Apply(RunLoop(W0, r, now), r, cl, chain)
  /\ UNCHANGED <<now, fnVars, apiKey, cancelRef>>

\* PDFService throws while the files are read
ParseThrows(r) ==
  /\ runs[r].pc = "parsing"
  /\ Apply(Catch(World(r)), r, cl, chain)
  /\ UNCHANGED <<now, fnVars, apiKey, cancelRef>>

\* the provider errors the App is exercised with
AppFailures == {RateLimitError(Digits(1))}

TickApp == Tick(StartTime + HorizonApp) /\ UNCHANGED <<rlVars, aiVars, appVars, fnVars>>

Init ==
  /\ now = StartTime
  /\ rl = RateLimiter(AIMinDelayMs)
  /\ est = [e \in Entries |-> "none"]
  /\ elog = <<>>
  /\ dlog = <<>>
  /\ apiKey = NoKey
  /\ AIInit
  /\ AppInit
  /\ FnInit

Next ==
  \/ \E k \in Keys : SaveApiKey(k)
  \/ RemoveApiKey
  \/ \E l \in Levels : ConcurrencyChange(l)
  \/ FileSelect
  \/ Reset
  \/ StopExtraction
  \/ \E r \in 1..MaxRuns : StartRun(r)
  \/ \E r \in 1..MaxRuns, n \in 0..MaxDocs : ParseDone(r, n)
  \/ \E r \in 1..MaxRuns : ParseThrows(r)
  \/ \E n \in TokenCounts : ExtractionSucceeds(n)
  \/ \E f \in AppFailures : ExtractionFails(f)
  \/ BackoffDone
  \/ AISleepDone
  \/ TickApp

Spec == Init /\ [][Next]_vars

(***************************************************************************)
(* Claims about the App (checked under Spec)                               *)
(***************************************************************************)
Docs(r) == 1..runs[r].n

\* the documents of invocation r handed to extractCVData whose call has
\* not returned yet
InFlight(r) ==
  {d \in 1..MaxDocs : /\ runs[r].sub[d] > 0
                      /\ res[<<r, d>>] = NoRes
                      /\ est[<<r, d>>] # "rejected"}

\* the run went through without a stop or reset and set status 'done'
DoneUncancelled(r) ==
  runs[r].pc = "returned" /\ runs[r].end = "done" /\ ~runs[r].cancelled

\* the documents of the run that became a candidate / a failure, in order
RECURSIVE DocsWhere(_, _, _)
DocsWhere(r, d, ok) ==
  IF d > runs[r].n
    THEN <<>>
    ELSE (IF res[<<r, d>>].success = ok THEN <<d>> ELSE <<>>)
           \o DocsWhere(r, d + 1, ok)

\* C7: within one run, the documents submitted and not yet settled all
\* belong to the batch the run is waiting for and number at most the
\* concurrency level; no document after that batch has been submitted and
\* every document before it has settled.
C7_BatchConcurrency ==
  \A r \in 1..MaxRuns :
     LET R == runs[r]
     IN  /\ Cardinality(InFlight(r)) <= R.conc
         /\ IF R.pc = "batch"
              THEN /\ InFlight(r) \subseteq Batch(R)
                   /\ \A d \in 1..MaxDocs :
                         d > Min(R.i + R.conc, R.n) => R.sub[d] = 0
                   /\ \A d \in 1..R.i : res[<<r, d>>] # NoRes
              ELSE InFlight(r) = {}

\* a run of one-document batches waits for its second batch, the document
\* of the first one settled
C7_Witness ==
  \E r \in 1..MaxRuns :
     /\ runs[r].pc = "batch" /\ runs[r].conc = 1 /\ runs[r].i = 1
     /\ InFlight(r) = {2}
     /\ res[<<r, 1>>].st = "done"

\* C8: terminal failures of documents do not end the run: a run sets
\* status 'error' only when reading the files failed, before any document
\* was submitted; and an uncancelled run that has returned has submitted
\* every document, every one has settled, and every failed one is in the
\* list of failures.
C8_ErrorIsolation ==
  \A r \in 1..MaxRuns :
     LET R == runs[r]
     IN  /\ \A d \in 1..MaxDocs : est[<<r, d>>] # "rejected"
         /\ R.end = "error" => \A d \in 1..MaxDocs : R.sub[d] = 0
         /\ (R.pc = "returned" /\ R.end # "" /\ \E d \in 1..MaxDocs : R.sub[d] > 0)
               => R.end = "done"
         /\ DoneUncancelled(r) =>
              /\ \A d \in Docs(r) : R.sub[d] > 0 /\ res[<<r, d>>].st = "done"
              /\ \A d \in Docs(r) :
                    ~res[<<r, d>>].success =>
                       \E j \in 1..Len(R.errors) :
                          /\ R.errors[j].rawText = Text(d)
                          /\ R.errors[j].error = res[<<r, d>>].error

\* the document of the first batch failed after its retries; the document
\* of the next batch was extracted and the run ended in 'done'
C8_Witness ==
  \E r \in 1..MaxRuns :
     /\ DoneUncancelled(r) /\ runs[r].n = 2 /\ runs[r].conc = 1
     /\ res[<<r, 1>>].error.pre = "Failed after"
     /\ res[<<r, 2>>].success
     /\ ui.processingStatus = "done"
     /\ Len(ui.failedExtractions) = 1 /\ Len(ui.extractedCandidates) = 1

\* C9: when an uncancelled run has set 'done', every document was
\* submitted exactly once, candidates and failures together are as many
\* as the documents, the candidates are the extracted documents in
\* document order, and the failures are the failed documents, each with
\* its 0-based position in the list of documents and its own text.
C9_Accounting ==
  \A r \in 1..MaxRuns :
     DoneUncancelled(r) =>
        LET R == runs[r]
            good == DocsWhere(r, 1, TRUE)
            bad == DocsWhere(r, 1, FALSE)
        IN  /\ \A d \in 1..MaxDocs : R.sub[d] = IF d <= R.n THEN 1 ELSE 0
            /\ Len(R.candidates) + Len(R.errors) = R.n
            /\ R.completedCount = R.n
            /\ R.candidates = [j \in 1..Len(good) |-> [rawText |-> Text(good[j])]]
            /\ R.errors =
                 [j \in 1..Len(bad) |->
                    [candidateIndex |-> bad[j] - 1,
                     error |-> res[<<r, bad[j]>>].error,
                     rawText |-> Text(bad[j])]]

\* a run of two one-document batches is done; its second document failed
\* and is recorded at position 1
C9_Witness ==
  \E r \in 1..MaxRuns :
     /\ DoneUncancelled(r) /\ runs[r].n = 2 /\ runs[r].conc = 1
     /\ Len(runs[r].candidates) = 1
     /\ Len(runs[r].errors) = 1
     /\ runs[r].errors[1].candidateIndex = 1

\* C10: in every reachable state progressCurrent <= progressTotal, and
\* while a run is extracting progressCurrent never decreases.
C10_ProgressStep ==
  (ui.processingStatus = "extracting" /\ ui'.processingStatus = "extracting")
     => ui'.progressCurrent >= ui.progressCurrent

C10_Progress ==
  /\ [](ui.progressCurrent <= ui.progressTotal)
  /\ [][C10_ProgressStep]_vars

\* C11: a run stopped by handleStopExtraction during its extraction never
\* sets status 'done': when it has returned, the last status it set is
\* 'idle'.
C11_StopEndsIdle ==
  \A r \in 1..MaxRuns :
     (runs[r].req = "stop" /\ runs[r].pc = "returned") => runs[r].end # "done"

\* C12: once a stop or reset has reached a run that awaits a batch, the
\* run hands no further document to extractCVData, and none of the calls
\* it has made is rejected or aborted.
C12_Inv ==
  \A r \in 1..MaxRuns : \A d \in 1..MaxDocs :
     (runs[r].req # "" /\ runs[r].sub[d] > 0) =>
        est[<<r, d>>] \notin {"rejected", "cancelled"}

C12_Step ==
  \A r \in 1..MaxRuns :
     runs[r].req # "" =>
        \A d \in 1..MaxDocs : runs'[r].sub[d] <= runs[r].sub[d]

C12_NoFurtherBatches == []C12_Inv /\ [][C12_Step]_vars

\* C13: when the batch that was in flight at the time of a stop or reset
\* settles, its results are discarded: the exposed candidates, failures,
\* progress and usage totals are left as they were.
BatchEnds(r) ==
  runs[r].pc = "batch" /\ (runs'[r].pc # "batch" \/ runs'[r].i # runs[r].i)

C13_Step ==
  \A r \in 1..MaxRuns :
     (runs[r].req # "" /\ BatchEnds(r)) =>
        /\ ui'.extractedCandidates = ui.extractedCandidates
        /\ ui'.failedExtractions = ui.failedExtractions
        /\ ui'.progressCurrent = ui.progressCurrent
        /\ ui'.totalTokens = ui.totalTokens

C13_InFlightDiscarded == [][C13_Step]_vars

\* a step of handleParsePDF: an invocation starts, leaves the file loop or
\* leaves a batch
RunStep == \E r \in 1..MaxRuns : runs'[r].pc # runs[r].pc \/ runs'[r].i # runs[r].i

\* the status the step's last setProcessingStatus replaces: a step that
\* leaves the file loop without a throw sets 'extracting' first
StatusBefore ==
  IF \E r \in 1..MaxRuns :
        runs[r].pc = "parsing" /\ runs'[r].pc # "parsing" /\ runs'[r].end # "error"
    THEN "extracting"
    ELSE ui.processingStatus

RunTransitions ==
  {<<"idle", "parsing">>, <<"parsing", "extracting">>, <<"extracting", "done">>,
   <<"extracting", "error">>, <<"extracting", "idle">>}

\* C14: a step of a run changes the status only along idle->parsing,
\* parsing->extracting, extracting->done, extracting->error and
\* extracting->idle; 'error' and 'done' are entered only from 'extracting'.
C14_Step ==
  (RunStep /\ ui'.processingStatus # StatusBefore) =>
     /\ <<StatusBefore, ui'.processingStatus>> \in RunTransitions
     /\ ui'.processingStatus \in {"error", "done"} => StatusBefore = "extracting"

C14_StatusMachine == [][C14_Step]_vars

(***************************************************************************)
(* PDFService and the two parse modes (src/unnamed/part_007,               *)
(* src/src/App.tsx:162-174). A page text is a sequence of tokens: a token  *)
(* is a run of word characters, a separator character, or one whitespace   *)
(* character; adjacent tokens are adjacent in the string.                  *)
(***************************************************************************)
MaxPages == 3          \* pages of a file

Space == " "
Newline == "\n"
Whitespace == {Space, Newline}
DigitTokens == {"1", "2"}
WordTokens == {"page", "Page", "PAGE", "of", "cv"} \cup DigitTokens

\* the page texts the files are made of
PageTexts ==
  {<<"Page", Space, "1", Space, "of", Space, "2", Newline, "cv">>,
   <<"cv", Newline, "Page", Space, "2", Space, "of", Space, "2">>,
   <<"1", "/", "2">>,
   <<Space, "1", Space, "of", Space, "2">>,
   <<"PAGE", Newline, Newline, "1">>,
   <<"page", "1", "2">>,
   <<"cv", "page", "1", "of", "2">>,
   <<"cv">>,
   <<>>}

\* String.prototype.toLowerCase on a token
LowerToken(t) ==
  IF t \in {"Page", "PAGE"} THEN "page" ELSE t

\* pageText.replace(/\s+/g, ' ').toLowerCase()
RECURSIVE Normalize(_)
Normalize(t) ==
  IF t = <<>>
    THEN <<>>
    ELSE IF Head(t) \in Whitespace
      THEN IF Len(t) > 1 /\ t[2] \in Whitespace
             THEN Normalize(Tail(t))
             ELSE <<Space>> \o Normalize(Tail(t))
      ELSE <<LowerToken(Head(t))>> \o Normalize(Tail(t))

\* \s* in a normalized text: at most one blank
SkipBlank(t, i) == IF i <= Len(t) /\ t[i] = Space THEN i + 1 ELSE i
Is(t, i, x) == i <= Len(t) /\ t[i] = x
IsDigits(t, i) == i <= Len(t) /\ t[i] \in DigitTokens
\* \b at the left of position i, at the right of position i
BoundaryBefore(t, i) == i = 1 \/ t[i - 1] \notin WordTokens
BoundaryAfter(t, i) == i = Len(t) \/ t[i + 1] \notin WordTokens

\* 1\s*<sep>\s*\d+  from position i
OneSepDigits(t, i, sep) ==
  /\ Is(t, i, "1")
  /\ Is(t, SkipBlank(t, i + 1), sep)
  /\ IsDigits(t, SkipBlank(t, SkipBlank(t, i + 1) + 1))

\* the five patterns of splitIntoCVs
Pattern1(t) == \E i \in 1..Len(t) :
                  Is(t, i, "page") /\ OneSepDigits(t, SkipBlank(t, i + 1), "of")
Pattern2(t) == \E i \in 1..Len(t) :
                  Is(t, i, "page") /\ OneSepDigits(t, SkipBlank(t, i + 1), "/")
Pattern3(t) == OneSepDigits(t, 1, "of")
Pattern4(t) == OneSepDigits(t, 1, "/")
Pattern5(t) == \E i \in 1..Len(t) :
                  /\ Is(t, i, "page") /\ BoundaryBefore(t, i)
                  /\ Is(t, SkipBlank(t, i + 1), "1")
                  /\ BoundaryAfter(t, SkipBlank(t, i + 1))

\* const isNewCV = patterns.some(pattern => pattern.test(normalizedText))
isNewCV(pageText) ==
  LET normalizedText == Normalize(pageText)
  IN  \/ Pattern1(normalizedText) \/ Pattern2(normalizedText)
      \/ Pattern3(normalizedText) \/ Pattern4(normalizedText)
      \/ Pattern5(normalizedText)

NoCV == [pageNumbers |-> <<>>, text |-> <<>>, open |-> FALSE]
\* mutant: numbers the pages by their 0-based index
NewCV_ZeroBased(index, pageText) ==
  [pageNumbers |-> <<index - 1>>, text |-> pageText, open |-> TRUE]

\* currentCV = {pageNumbers: [index + 1], text: pageText}, index 0-based
NewCV(index, pageText) ==
  [pageNumbers |-> <<index>>, text |-> pageText, open |-> TRUE]
Closed(cv) == [pageNumbers |-> cv.pageNumbers, text |-> cv.text]

\* mutant: pages before the first boundary are dropped
LeadingPage_Dropped(index, pageText) == NoCV

\* no CV started yet: start a CV anyway to not lose data
LeadingPage(index, pageText) == NewCV(index, pageText)

\* the body of pageTexts.forEach for the page at 1-based position index,
\* S = [cvs, currentCV]
SplitPage(S, index, pageText) ==
  IF isNewCV(pageText)
    THEN [cvs |-> IF S.currentCV.open
                    THEN Append(S.cvs, Closed(S.currentCV)) ELSE S.cvs,
          currentCV |-> NewCV(index, pageText)]
    ELSE IF S.currentCV.open
      THEN [S EXCEPT !.currentCV.pageNumbers = Append(@, index),
                     !.currentCV.text = @ \o <<Newline, Newline>> \o pageText]
      ELSE [S EXCEPT !.currentCV = LeadingPage(index, pageText)]

RECURSIVE SplitFrom(_, _, _)
SplitFrom(S, texts, index) ==
  IF index > Len(texts)
    THEN S
    ELSE SplitFrom(SplitPage(S, index, texts[index]), texts, index + 1)

\* PDFService.splitIntoCVs(pageTexts)
splitIntoCVs(texts) ==
  LET S == SplitFrom([cvs |-> <<>>, currentCV |-> NoCV], texts, 1)
  IN  IF S.currentCV.open THEN Append(S.cvs, Closed(S.currentCV)) ELSE S.cvs

\* mutant: joins the pages with a single line break
Separator_Single == <<Newline>>

\* pageTexts.join('\n\n')
Separator == <<Newline, Newline>>

RECURSIVE Join(_)
Join(texts) ==
  IF texts = <<>>
    THEN <<>>
    ELSE IF Len(texts) = 1
      THEN texts[1]
      ELSE texts[1] \o Separator \o Join(Tail(texts))

\* the document of the individual branch of handleParsePDF
IndividualCV(texts) ==
  [pageNumbers |-> [i \in 1..Len(texts) |-> i], text |-> Join(texts)]

\* const cvs = await PDFService.parseAndSplit(file); allCVs.push(...cvs)
ParseLonglist ==
  /\ parsed = NoParse
  /\ parsed' = [mode |-> "longlist", cvs |-> splitIntoCVs(pageTexts)]
  /\ UNCHANGED <<now, rlVars, aiVars, appVars, textContent, pageTexts, payload,
               extracted>>

\* the else branch: one cv of all the pages; allCVs.push(cv)
ParseIndividual ==
  /\ parsed = NoParse
  /\ parsed' = [mode |-> "individual", cvs |-> <<IndividualCV(pageTexts)>>]
  /\ UNCHANGED <<now, rlVars, aiVars, appVars, textContent, pageTexts, payload,
               extracted>>

RECURSIVE SeqsUpTo(_, _)
SeqsUpTo(S, n) ==
  IF n = 0
    THEN {<<>>}
    ELSE LET shorter == SeqsUpTo(S, n - 1)
         IN  shorter \cup {Append(q, x) : q \in shorter, x \in S}

InitPDF ==
  /\ now = StartTime
  /\ rl = RateLimiter(AIMinDelayMs)
  /\ est = [e \in Entries |-> "none"]
  /\ elog = <<>>
  /\ dlog = <<>>
  /\ apiKey = NoKey
  /\ AIInit
  /\ AppInit
  /\ textContent = <<>>
  /\ pageTexts \in SeqsUpTo(PageTexts, MaxPages)
  /\ parsed = NoParse
  /\ payload = NoPayload
  /\ extracted = NoExtraction

NextPDF == ParseLonglist \/ ParseIndividual

SpecPDF == InitPDF /\ [][NextPDF]_vars

(***************************************************************************)
(* Claims about the parse modes (checked under SpecPDF)                    *)
(***************************************************************************)
N == Len(pageTexts)
\* where page j starts in the text of the only document
RECURSIVE Offset(_)
Offset(j) == IF j = 1 THEN 0 ELSE Offset(j - 1) + Len(pageTexts[j - 1]) + 2

\* C15: individual mode makes exactly one document of a file of N >= 0
\* pages; its page numbers are 1..N in order and its text is the page
\* texts in page order, a blank line (two line breaks) between neighbours.
C15_Individual ==
  parsed.mode = "individual" =>
     /\ Len(parsed.cvs) = 1
     /\ LET cv == parsed.cvs[1]
        IN  /\ Len(cv.pageNumbers) = N
            /\ \A i \in 1..N : cv.pageNumbers[i] = i
            /\ Len(cv.text) = IF N = 0 THEN 0 ELSE Offset(N) + Len(pageTexts[N])
            /\ \A j \in 1..N :
                  /\ SubSeq(cv.text, Offset(j) + 1, Offset(j) + Len(pageTexts[j]))
                       = pageTexts[j]
                  /\ j > 1 => /\ cv.text[Offset(j) - 1] = Newline
                              /\ cv.text[Offset(j)] = Newline

\* a file of three pages, two of them with a boundary marker, is one
\* document
C15_Witness ==
  /\ parsed.mode = "individual"
  /\ N = 3
  /\ isNewCV(pageTexts[1]) /\ isNewCV(pageTexts[3]) /\ ~isNewCV(pageTexts[2])
  /\ pageTexts[2] # <<>>

Matching == {i \in 1..N : isNewCV(pageTexts[i])}
K == Cardinality(Matching)

\* C16: longlist mode on pages of which K match a boundary pattern: K
\* documents when K >= 1 and page 1 matches, K + 1 when K >= 1 and it does
\* not, one document when K = 0 and there are pages, none for no pages;
\* the documents partition the pages in order, every document but a
\* leading one starts at a matching page and no document has a matching
\* page after its first.
C16_Longlist ==
  parsed.mode = "longlist" =>
     LET cvs == parsed.cvs
     IN  /\ Len(cvs) = IF N = 0 THEN 0
                       ELSE IF K = 0 THEN 1
                       ELSE IF 1 \in Matching THEN K ELSE K + 1
         /\ \A c \in 1..Len(cvs) :
               LET pn == cvs[c].pageNumbers
               IN  /\ Len(pn) >= 1
                   /\ \A i \in 2..Len(pn) :
                         pn[i] = pn[i - 1] + 1 /\ pn[i] \notin Matching
                   /\ (c > 1 \/ 1 \in Matching) => pn[1] \in Matching
                   /\ pn[1] = IF c = 1 THEN 1
                              ELSE cvs[c - 1].pageNumbers[Len(cvs[c - 1].pageNumbers)] + 1
                   /\ c = Len(cvs) => pn[Len(pn)] = N

\* three pages, the first without a marker, the second with one, the
\* third a continuation: a leading document and one that starts at page 2
C16_Witness ==
  /\ parsed.mode = "longlist"
  /\ N = 3 /\ Matching = {2}
  /\ Len(parsed.cvs) = 2
  /\ parsed.cvs[2].pageNumbers = <<2, 3>>

(***************************************************************************)
(* AIService.performExtraction after the provider has answered: schema     *)
(* validation and cleaning (src/unnamed/part_012:307-323, 459-498,         *)
(* 684-761). A string is a sequence of tokens, a token a word or one blank.*)
(***************************************************************************)
MaxWork == 2           \* work entries of a payload, all kinds of entry
MaxEdu  == 2           \* education entries of a payload
MaxLong == 6           \* work entries of a payload of well-formed entries

\* a property that is undefined; no string has this token
Absent == <<"undefined">>

Acme == <<"Acme">>
Engineer == <<"Engineer">>

\* workHistory items of a payload
WorkItems ==
  {[company |-> Acme, jobTitle |-> Engineer, dates |-> <<"2020">>],
   [company |-> <<Space, "Acme", Space>>,
    jobTitle |-> <<"BOARD", Space, "MEMBER">>, dates |-> Absent],
   [company |-> Acme, jobTitle |-> <<"Board", Space, "Member">>,
    dates |-> <<Space>>],
   [company |-> <<Space>>, jobTitle |-> Engineer, dates |-> Absent],
   [company |-> Absent, jobTitle |-> Engineer, dates |-> Absent],
   [company |-> Acme, jobTitle |-> <<>>, dates |-> Absent]}

\* education items of a payload
EduItems ==
  {[institution |-> <<"MIT">>, degree |-> <<"BSc">>, dates |-> Absent],
   [institution |-> <<Space, "MIT">>, degree |-> Absent, dates |-> <<"2001">>],
   [institution |-> Absent, degree |-> <<"BSc">>, dates |-> Absent]}

Names == {<<"Ann">>, <<>>, Absent}

\* n well-formed work entries, the even ones board roles
WellFormed(n) ==
  [i \in 1..n |->
     [company |-> Acme,
      jobTitle |-> IF i % 2 = 0 THEN <<"Advisory", Space, "Board">> ELSE Engineer,
      dates |-> Absent]]

Payloads ==
  [name : Names,
   workHistory : SeqsUpTo(WorkItems, MaxWork),
   education : SeqsUpTo(EduItems, MaxEdu)]
  \cup {[name |-> <<"Ann">>, workHistory |-> WellFormed(n), education |-> <<>>] :
          n \in 0..MaxLong}

\* a value is truthy: neither undefined nor the empty string
TruthyStr(x) == x # Absent /\ x # <<>>

\* z.string().min(1)
StringMin1(x) == x # Absent /\ Len(x) >= 1

\* String.prototype.trim
RECURSIVE TrimLeft(_)
TrimLeft(x) == IF x # <<>> /\ Head(x) = Space THEN TrimLeft(Tail(x)) ELSE x
RECURSIVE TrimRight(_)
TrimRight(x) ==
  IF x # <<>> /\ x[Len(x)] = Space THEN TrimRight(SubSeq(x, 1, Len(x) - 1)) ELSE x
trim(x) == TrimRight(TrimLeft(x))

\* String.prototype.toLowerCase
LowerCase ==
  [t \in {"BOARD", "Board", "MEMBER", "Member", "Advisory", "Engineer"} |->
     CASE t \in {"BOARD", "Board"} -> "board"
       [] t \in {"MEMBER", "Member"} -> "member"
       [] t = "Advisory" -> "advisory"
       [] t = "Engineer" -> "engineer"]
toLowerCase(x) ==
  [i \in 1..Len(x) |-> IF x[i] \in DOMAIN LowerCase THEN LowerCase[x[i]] ELSE x[i]]

\* mutant: compares the title as it is written
TitleLower_AsIs(x) == x

\* const titleLower = experience.jobTitle.toLowerCase()
TitleLower(x) == toLowerCase(x)

\* String.prototype.includes
includes(x, y) ==
  \E i \in 0..(Len(x) - Len(y)) : SubSeq(x, i + 1, i + Len(y)) = y

boardKeywords ==
  {<<"board", Space, "member">>,
   <<"board", Space, "director">>,
   <<"advisory", Space, "board">>,
   <<"board", Space, "of", Space, "directors">>,
   <<"non-executive", Space, "director">>,
   <<"supervisory", Space, "board">>,
   <<"board", Space, "observer">>,
   <<"board", Space, "advisor">>}

\* CVDataSchema.safeParse(parsed).success
SchemaAccepts(p) ==
  /\ StringMin1(p.name)
  /\ Len(p.workHistory) <= 5
  /\ \A i \in 1..Len(p.workHistory) :
        StringMin1(p.workHistory[i].company) /\ StringMin1(p.workHistory[i].jobTitle)
  /\ \A i \in 1..Len(p.education) : StringMin1(p.education[i].institution)

KeepWork(item) == TruthyStr(item.company) /\ TruthyStr(item.jobTitle)
CleanWork(item) ==
  [company |-> trim(item.company), jobTitle |-> trim(item.jobTitle),
   dates |-> IF TruthyStr(item.dates) THEN trim(item.dates) ELSE Absent]

\* filter(...).slice(0, 5).map(...)
cleanWorkHistory(workHistory) ==
  LET kept == SelectSeq(workHistory, KeepWork)
      first == SubSeq(kept, 1, Min(5, Len(kept)))
  IN  [i \in 1..Len(first) |-> CleanWork(first[i])]

KeepEducation(item) == TruthyStr(item.institution) /\ TruthyStr(item.degree)
CleanEdu(item) ==
  [institution |-> trim(item.institution), degree |-> trim(item.degree),
   dates |-> IF TruthyStr(item.dates) THEN trim(item.dates) ELSE Absent]

cleanEducation(education) ==
  LET kept == SelectSeq(education, KeepEducation)
  IN  [i \in 1..Len(kept) |-> CleanEdu(kept[i])]

NotBoard(experience) ==
  ~\E keyword \in boardKeywords : includes(TitleLower(experience.jobTitle), keyword)

filterBoardMemberRoles(workHistory) == SelectSeq(workHistory, NotBoard)

\* parseResponse from JSON.parse on, then lines 472-497 of performExtraction
performExtraction(p) ==
  IF ~SchemaAccepts(p)
    THEN [st |-> "threw", message |-> "AI returned invalid data structure"]
    ELSE [st |-> "ok",
          data |-> [name |-> IF TruthyStr(p.name) THEN p.name ELSE <<"Unknown">>,
                    workHistory |->
                      filterBoardMemberRoles(cleanWorkHistory(p.workHistory)),
                    education |-> cleanEducation(p.education)]]

PerformExtraction ==
  /\ extracted = NoExtraction
  /\ extracted' = performExtraction(payload)
  /\ UNCHANGED <<now, rlVars, aiVars, appVars, textContent, pageTexts, parsed,
               payload>>

InitExtract ==
  /\ now = StartTime
  /\ rl = RateLimiter(AIMinDelayMs)
  /\ est = [e \in Entries |-> "none"]
  /\ elog = <<>>
  /\ dlog = <<>>
  /\ apiKey = NoKey
  /\ AIInit
  /\ AppInit
  /\ textContent = <<>>
  /\ pageTexts = <<>>
  /\ parsed = NoParse
  /\ payload \in Payloads
  /\ extracted = NoExtraction

NextExtract == PerformExtraction

SpecExtract == InitExtract /\ [][NextExtract]_vars

(***************************************************************************)
(* Claims about validation and cleaning (checked under SpecExtract)        *)
(***************************************************************************)
\* the title contains a board keyword, whatever the case of its letters
IsBoardTitle(title) ==
  \E keyword \in boardKeywords : includes(toLowerCase(title), keyword)

\* C17: the work history of every successful extraction has at most 5
\* entries and none whose job title contains a board keyword, letters
\* compared without regard to case.
C17_WorkHistory ==
  extracted.st = "ok" =>
     /\ Len(extracted.data.workHistory) <= 5
     /\ \A i \in 1..Len(extracted.data.workHistory) :
           ~IsBoardTitle(extracted.data.workHistory[i].jobTitle)

\* a payload with 'BOARD MEMBER' in capitals and an ordinary entry was
\* extracted; the ordinary entry is what is left
C17_Witness ==
  /\ extracted.st = "ok"
  /\ Len(payload.workHistory) = 2
  /\ payload.workHistory[1].jobTitle = <<"BOARD", Space, "MEMBER">>
  /\ Len(extracted.data.workHistory) = 1
  /\ extracted.data.workHistory[1].jobTitle = Engineer

\* cleanWorkHistory followed by filterBoardMemberRoles
CleanStep(workHistory) == filterBoardMemberRoles(cleanWorkHistory(workHistory))

\* C18: the clean step applied to its own output returns that output, and
\* the output has no entry with an empty company or job title.
C18_Idempotent ==
  extracted.st = "ok" =>
     LET out == extracted.data.workHistory
     IN  /\ CleanStep(out) = out
         /\ \A i \in 1..Len(out) : out[i].company # <<>> /\ out[i].jobTitle # <<>>

\* C19: every education entry of the payload that has an institution and
\* no degree is in the record, its degree absent; the entries of the
\* record are the payload's entries that have an institution, in order.
HasInstitution(item) == TruthyStr(item.institution)

C19_Education ==
  extracted.st = "ok" =>
     LET wanted == SelectSeq(payload.education, HasInstitution)
         got == extracted.data.education
     IN  /\ Len(got) = Len(wanted)
         /\ \A i \in 1..Len(wanted) :
               /\ got[i].institution = trim(wanted[i].institution)
               /\ wanted[i].degree = Absent => got[i].degree = Absent

\* a work entry without a company or a job title
Defective(item) == ~TruthyStr(item.company) \/ ~TruthyStr(item.jobTitle)

\* C20: a payload with a work entry that lacks a company or a job title
\* is extracted successfully on that attempt, without the defective entry.
C20_DefectiveDropped ==
  (/\ extracted.st # "none"
   /\ StringMin1(payload.name)
   /\ \A i \in 1..Len(payload.education) : StringMin1(payload.education[i].institution)
   /\ Len(payload.workHistory) <= 5
   /\ \E i \in 1..Len(payload.workHistory) : Defective(payload.workHistory[i]))
  => /\ extracted.st = "ok"
     /\ \A i \in 1..Len(extracted.data.workHistory) :
           ~Defective(extracted.data.workHistory[i])

\* the items of the payload pass their schemas
ValidWorkItem(item) == StringMin1(item.company) /\ StringMin1(item.jobTitle)
ValidItems(p) ==
  /\ \A i \in 1..Len(p.workHistory) : ValidWorkItem(p.workHistory[i])
  /\ \A i \in 1..Len(p.education) : StringMin1(p.education[i].institution)

\* C21: a payload with more than 5 valid work entries is extracted
\* successfully; the work history is made of its first 5 entries, in
\* order, the board roles among them left out.
C21_TruncatedToFive ==
  (/\ extracted.st # "none"
   /\ StringMin1(payload.name) /\ ValidItems(payload)
   /\ Len(payload.workHistory) > 5)
  => /\ extracted.st = "ok"
     /\ extracted.data.workHistory =
          SelectSeq([i \in 1..5 |-> CleanWork(payload.workHistory[i])], NotBoard)

\* C22: a payload without a name (absent or empty) is extracted
\* successfully with the name 'Unknown'; the name of a successful record
\* is never undefined.
C22_NameUnknown ==
  /\ (/\ extracted.st # "none"
      /\ ~TruthyStr(payload.name) /\ ValidItems(payload)
      /\ Len(payload.workHistory) <= 5)
     => /\ extracted.st = "ok"
        /\ extracted.data.name = <<"Unknown">>
  /\ extracted.st = "ok" => extracted.data.name # Absent

(***************************************************************************)
(* PDFService.parsePDF: the text of one page from its text items           *)
(* (src/unnamed/part_007:33-52). An item is its string, one token, and     *)
(* the vertical coordinate item.transform[5].                              *)
(***************************************************************************)
MaxItems == 3          \* text items of a page

\* let lastY = -1
NoLastY == -1
\* Math.abs(currentY - lastY) > 2
Tolerance == 2

Ys == {-4, -1, 0, 2, 3}
Items == [str : {"cv", "1"}, y : Ys]

Abs(x) == IF x < 0 THEN -x ELSE x

\* if (lastY !== -1 && Math.abs(currentY - lastY) > 2)
IsNewLine(lastY, currentY, idx) ==
  lastY # NoLastY /\ Abs(currentY - lastY) > Tolerance

\* the body of textContent.items.forEach for the item at 0-based index idx,
\* S = [pageText, lastY]
AddItem(S, item, idx) ==
  LET sep == IF IsNewLine(S.lastY, item.y, idx) THEN <<Newline>>
             ELSE IF idx > 0 THEN <<Space>>
             ELSE <<>>
  IN  [pageText |-> S.pageText \o sep \o <<item.str>>, lastY |-> item.y]

RECURSIVE AddItemsFrom(_, _, _)
AddItemsFrom(S, items, idx) ==
  IF idx >= Len(items)
    THEN S
    ELSE AddItemsFrom(AddItem(S, items[idx + 1], idx), items, idx + 1)

PageTextOf(items) ==
  AddItemsFrom([pageText |-> <<>>, lastY |-> NoLastY], items, 0).pageText

\* pageTexts.push(pageText)
ReadPage ==
  /\ pageTexts = <<>>
  /\ pageTexts' = <<PageTextOf(textContent)>>
  /\ UNCHANGED <<now, rlVars, aiVars, appVars, textContent, parsed, payload,
               extracted>>

InitText ==
  /\ now = StartTime
  /\ rl = RateLimiter(AIMinDelayMs)
  /\ est = [e \in Entries |-> "none"]
  /\ elog = <<>>
  /\ dlog = <<>>
  /\ apiKey = NoKey
  /\ AIInit
  /\ AppInit
  /\ textContent \in SeqsUpTo(Items, MaxItems)
  /\ pageTexts = <<>>
  /\ parsed = NoParse
  /\ payload = NoPayload
  /\ extracted = NoExtraction

NextText == ReadPage

SpecText == InitText /\ [][NextText]_vars

\* C23: the text of a page is its items' strings in order, nothing before
\* the first, and before each later item one separator: a line break when
\* its vertical coordinate differs from the previous item's by more than
\* 2, a blank otherwise; a page without items has the empty text.
C23_LineReconstruction ==
  pageTexts # <<>> =>
     LET t == pageTexts[1]
         n == Len(textContent)
     IN  /\ Len(t) = IF n = 0 THEN 0 ELSE 2 * n - 1
         /\ \A i \in 1..n : t[2 * i - 1] = textContent[i].str
         /\ \A i \in 2..n :
               t[2 * i - 2] =
                 IF Abs(textContent[i].y - textContent[i - 1].y) > 2
                   THEN Newline ELSE Space

(***************************************************************************)
(* Further claims about splitIntoCVs (checked under SpecPDF)               *)
(***************************************************************************)
RECURSIVE AllPageNumbers(_)
AllPageNumbers(cvs) ==
  IF cvs = <<>> THEN <<>> ELSE Head(cvs).pageNumbers \o AllPageNumbers(Tail(cvs))

\* C24: the page-number lists of the documents, concatenated in output
\* order, are 1, 2, ..., N; every document is a non-empty run of
\* consecutive pages and its text is the texts of its pages, in order,
\* joined by a blank line.
C24_Partition ==
  parsed.mode = "longlist" =>
     /\ AllPageNumbers(parsed.cvs) = [i \in 1..Len(pageTexts) |-> i]
     /\ \A c \in 1..Len(parsed.cvs) :
           LET pn == parsed.cvs[c].pageNumbers
           IN  /\ pn # <<>>
               /\ \A i \in 2..Len(pn) : pn[i] = pn[i - 1] + 1
               /\ parsed.cvs[c].text = Join([i \in 1..Len(pn) |-> pageTexts[pn[i]]])

\* three pages, the first two with a marker: a document of page 1 and a
\* document of pages 2 and 3 with both texts
C24_Witness ==
  /\ parsed.mode = "longlist"
  /\ Len(pageTexts) = 3
  /\ Len(parsed.cvs) = 2
  /\ parsed.cvs[1].pageNumbers = <<1>>
  /\ parsed.cvs[2].pageNumbers = <<2, 3>>
  /\ pageTexts[3] # <<>>
  /\ Len(parsed.cvs[2].text) = Len(pageTexts[2]) + 2 + Len(pageTexts[3])

(***************************************************************************)
(* Further claims about AIService (checked under SpecAI)                   *)
(***************************************************************************)
\* C25: when attempt k <= 3 is the first to succeed, the chain has made
\* exactly k provider calls and k - 1 backoff sleeps (one after each
\* failed attempt), the entry is resolved with a success, and the chain
\* does nothing more.
C25_Inv ==
  \A e \in Entries :
     (res[e].st = "done" /\ res[e].success /\ chain.e = e) =>
        /\ chain.calls = chain.fails + 1
        /\ chain.backoffs = chain.fails
        /\ chain.calls <= maxAttempts
        /\ est[e] = "resolved"
        /\ cl = IdleCl

C25_Step ==
  \A e \in Entries :
     (res[e].st = "done" /\ res[e].success /\ chain.e = e /\ chain'.e = e) =>
        chain' = chain /\ res'[e] = res[e]

C25_EventualSuccess == []C25_Inv /\ [][C25_Step]_vars

\* the third attempt of a chain was the first to succeed
C25_Witness ==
  \E e \in Entries :
     /\ res[e].st = "done" /\ res[e].success /\ chain.e = e
     /\ chain.calls = maxAttempts /\ chain.backoffs = maxAttempts - 1

(***************************************************************************)
(* Further claims about the App (checked under Spec)                       *)
(***************************************************************************)
Submitted(r) == {d \in 1..MaxDocs : runs[r].sub[d] > 0}

\* C26: the batches of a run are consecutive groups of the concurrency
\* level the run started with: every batch starts at a multiple of that
\* level, no document is submitted twice, and the documents submitted so
\* far are exactly those of the batches up to the current one. A change of
\* the concurrency level touches no run, no queued or running call, and a
\* run keeps its level to its end.
C26_Inv ==
  \A r \in 1..MaxRuns :
     LET R == runs[r]
     IN  /\ R.conc \in Levels
         /\ R.i % R.conc = 0
         /\ \A d \in 1..MaxDocs : R.sub[d] <= 1
         /\ R.pc = "batch" => Submitted(r) = 1..Min(R.i + R.conc, R.n)
         /\ (R.pc = "returned" /\ R.end = "done") =>
               Submitted(r) = 1..Min(R.i, R.n)

C26_Step ==
  /\ \A r \in 1..MaxRuns :
        (Active(r) /\ runs'[r].pc # "none") => runs'[r].conc = runs[r].conc
  /\ ui'.concurrencyLevel # ui.concurrencyLevel =>
        UNCHANGED <<runs, rl, est, cl, res, chain, cancelRef>>

C26_BatchPartition == []C26_Inv /\ [][C26_Step]_vars

\* a run started at level 1 has submitted its second one-document batch
\* while the selector showed level 2
C26_Witness ==
  \E r \in 1..MaxRuns :
     /\ runs[r].pc = "batch" /\ runs[r].conc = 1 /\ runs[r].lvl = 2
     /\ runs[r].i = 1 /\ runs[r].n = 2
     /\ Submitted(r) = {1, 2}

(***************************************************************************)
(* Further claims about the RateLimiter (checked under SpecRL)             *)
(***************************************************************************)
Final(f, e) == f[e] \in {"resolved", "rejected", "cancelled"}
Before(log, e0, e) ==
  \E i, j \in 1..Len(log) : i < j /\ log[i] = e0 /\ log[j] = e

\* C27: at most one closure runs at a time and it is the one the single
\* loop awaits; an entry is dispatched only when every entry dispatched
\* before it has settled, so the entries that are dispatched settle in the
\* order of their enqueue calls. (An entry rejected by clear() settles at
\* the clear() call, possibly before an earlier entry that is running.)
C27_Inv ==
  /\ Cardinality({e \in Entries : est[e] = "running"}) <= 1
  /\ \A e \in Entries : est[e] = "running" <=> (rl.pc = "await" /\ rl.cur = e)
  /\ rl.pc # "idle" => rl.processing
  /\ \A i \in 1..(Len(dlog) - 1) : est[dlog[i].e] \in {"resolved", "rejected"}

C27_Step ==
  \A e \in Entries :
     /\ (est[e] # "running" /\ est'[e] = "running") =>
           \A e0 \in Entries : Before(elog', e0, e) => Final(est', e0)
     /\ (est[e] = "running" /\ est'[e] # "running") =>
           /\ est'[e] \in {"resolved", "rejected"}
           /\ \A e0 \in Entries : Before(elog, e0, e) => Final(est, e0)

TickRLLive ==
  /\ \/ now + TickMs <= StartTime + HorizonRL
     \/ rl.pc = "sleep" /\ now < rl.wake
  /\ now' = now + TickMs
  /\ UNCHANGED <<rlVars, aiVars, appVars, fnVars>>

NextRLLive ==
  \/ \E e \in ClientEntries : ClientEnqueue(e)
  \/ ClientClear
  \/ SleepDone
  \/ \E ok \in BOOLEAN : FnSettles(ok)
  \/ TickRLLive

SpecRLLive ==
  /\ InitRL
  /\ [][NextRLLive]_vars
  /\ WF_vars(TickRLLive)
  /\ WF_vars(SleepDone)
  /\ WF_vars(\E ok \in BOOLEAN : FnSettles(ok))

\* C28: given that every dispatched closure settles, every entry enqueued
\* is eventually settled by its closure or rejected by clear(), whenever
\* the enqueue and clear calls arrive; an entry waiting in the queue always
\* has a loop that will take it, and the processing flag is set exactly
\* while a loop is suspended in a sleep or in a closure.
C28_Inv ==
  /\ rl.processing <=> rl.pc # "idle"
  /\ rl.pc = "idle" => rl.queue = <<>>
  /\ \A e \in Entries : est[e] = "pending" <=> InQueue(rl, e)
  /\ \A e \in Entries : est[e] = "cancelled" => ~WasInvoked(e)
  /\ \A e \in Entries : est[e] \in {"resolved", "rejected"} => WasInvoked(e)

C28_NoLostWakeup ==
  /\ []C28_Inv
  /\ \A e \in ClientEntries : (est[e] # "none") ~> Final(est, e)

\* an entry enqueued while the loop awaited a closure, after an earlier
\* loop had exited, has been dispatched and settled
C28_Witness ==
  \E e1, e2, e3 \in Entries :
     /\ Len(dlog) = 3
     /\ dlog[1].e = e1 /\ dlog[2].e = e2 /\ dlog[3].e = e3
     /\ Len(elog) = 3 /\ elog[3] = e3
     /\ dlog[2].t > dlog[1].t + rl.minDelayMs
     /\ rl.minDelayMs > 0
     /\ Final(est, e3)
     /\ rl.pc = "idle"

(***************************************************************************)
(* Claims about overlapping invocations of handleParsePDF (under Spec)     *)
(***************************************************************************)
\* C29: at any time at most one invocation of handleParsePDF is between
\* its start and its return.
C29_SingleActiveRun ==
  Cardinality({r \in 1..MaxRuns : Active(r)}) <= 1

\* what handleReset leaves on the screen
Cleared ==
  /\ ui.extractedCandidates = <<>>
  /\ ui.failedExtractions = <<>>
  /\ ui.progressCurrent = 0
  /\ ui.progressTotal = 0
  /\ ui.processingStatus = "idle"

\* C30: once handleReset has cleared the lists, the progress counters and
\* the status, they stay cleared until handleParsePDF is started again.
C30_ResetDurable ==
  [][(Cleared /\ cancelRef /\ ui'.processingStatus # "parsing") => Cleared']_vars

====
